---------------------------- MODULE Spec2Model ----------------------------
(***************************************************************************)
(* Two serverless handlers of week-9:                                      *)
(*   homework/lambda_function.py              the image classifier handler *)
(*   workshop/lambda-sklearn/lambda_function.py    the churn handler       *)
(* Each handler is its own deployment.  ImageSpec runs the image handler,  *)
(* ChurnSpec runs the churn handler; the variables of the other handler    *)
(* stay at their undeployed values.                                        *)
(*                                                                         *)
(* Python values are tagged records.  Floating-point numbers are fixed     *)
(* point integers: image arithmetic in millionths, probabilities in        *)
(* thousandths.  Images are solid-colour, so a pixel grid is its size,     *)
(* its mode and one value per band.                                        *)
(***************************************************************************)
EXTENDS Integers, Sequences, FiniteSets, TLC

VARIABLES
    \* ---- image handler: environment, fixed during a behaviour
    web,          \* what is behind each URL
    artifact,     \* the file at MODEL_PATH
    \* ---- image handler: one invocation
    pc,           \* 0: no invocation in progress, else index into Program
    event,        \* the event of the current / last invocation
    url,          \* lambda_handler's local `url`
    session,      \* predict's local `session`
    input_name,   \* predict's local `input_name`
    img,          \* predict's local `img`
    tensor,       \* predict's local `tensor`
    output,       \* predict's local `output`
    pred,         \* lambda_handler's local `pred`
    response,     \* value returned by the last finished invocation
    error,        \* exception that ended the last finished invocation
    trace,        \* external effects of the current / last invocation
    log,          \* per URL, the outcomes of all finished invocations
    served,       \* per URL, how many invocations finished (up to MaxServed)
    \* ---- churn handler: environment
    modelBin,     \* the file model.bin
    \* ---- churn handler: process and one invocation
    cpc,          \* "import", "import_failed", "ready", or a handler label
    pipeline,     \* module-level global `pipeline`
    pipelineLoads,\* number of pickle.load calls so far
    invocations,  \* number of invocations started so far
    cevent,       \* event of the current / last invocation
    customer,     \* lambda_handler's local `customer`
    proba,        \* value of pipeline.predict_proba(customer)
    result,       \* predict_single's local `result`
    prediction,   \* lambda_handler's local `prediction`
    cresponse,    \* value returned by the last finished invocation
    cerror,       \* exception that ended the last finished invocation
    probaCalls,   \* arguments of the predict_proba calls of this invocation
    usedPipelines \* pipeline objects on which predict_proba was ever called

ivars == <<web, artifact, pc, event, url, session, input_name, img, tensor,
           output, pred, response, error, trace, log, served>>
cvars == <<modelBin, cpc, pipeline, pipelineLoads, invocations, cevent,
           customer, proba, result, prediction, cresponse, cerror,
           probaCalls, usedPipelines>>
vars == <<ivars, cvars>>

---------------------------------------------------------------------------
\* Python values

None == [t |-> "None"]
PyStr(s) == [t |-> "str", s |-> s]
PyInt(n) == [t |-> "int", n |-> n]
PyDict(d) == [t |-> "dict", d |-> d]
PyList(items) == [t |-> "list", items |-> items]
PyFloat(x) == [t |-> "float", x |-> x]
NoResponse == [t |-> "no_response"]
NoError == [t |-> "no_error"]
Exception(name) == [t |-> "exception", name |-> name]
Unbound == [t |-> "unbound"]

\* `if url is None` in place of `if not url`
Truthy_NoneOnly(v) == v.t # "None"

\* bool(v) for the values an event carries
Truthy(v) ==
    CASE v.t = "None" -> FALSE
      [] v.t = "str"  -> v.s # ""
      [] v.t = "int"  -> v.n # 0
      [] v.t = "list" -> Len(v.items) > 0
      [] v.t = "dict" -> DOMAIN v.d # {}
      [] OTHER        -> TRUE

\* dict.get(key) with the default None
DictGet(d, key) == IF key \in DOMAIN d.d THEN d.d[key] ELSE None


---------------------------------------------------------------------------
\* Image handler: constants of the module (lambda_function.py lines 9-12)

MODEL_PATH == "hair_classifier_empty.onnx"
\* thousandths
IMAGENET_MEAN == <<485, 456, 406>>
IMAGENET_STD == <<229, 224, 225>>
\* (width, height)
TARGET_SIZE == <<200, 200>>

---------------------------------------------------------------------------
\* Image handler: the environment

\* finished invocations counted per URL
MaxServed == 2

Urls == {"https://a/1.jpg", "https://b/2.png"}

Sizes == {<<1, 1>>, <<640, 480>>, <<100, 300>>}
Shades == {0, 200}

\* the bands of a solid-colour image of a given mode
BandsOf(mode, shade) ==
    CASE mode = "L"    -> <<shade>>
      [] mode = "RGB"  -> <<shade, 255 - shade, shade \div 2>>
      [] mode = "RGBA" -> <<shade, 255 - shade, shade \div 2, 255>>

Images ==
    {[size |-> sz, mode |-> m, bands |-> BandsOf(m, sh)] :
        sz \in Sizes, m \in {"L", "RGB", "RGBA"}, sh \in Shades}

\* what a GET of a URL finds
Contents ==
    {[kind |-> "unreachable"], [kind |-> "not_image"]}
    \cup {[kind |-> "image", image |-> i] : i \in Images}

\* the file at MODEL_PATH: absent, or a model with a declared input shape,
\* a bias, and a number of output elements
Artifacts ==
    {[kind |-> "missing"]}
    \cup {[kind |-> "model", input |-> "input", inshape |-> s, bias |-> b,
           outs |-> n] :
            s \in {<<1, 3, 200, 200>>}, b \in {0, 250000}, n \in {1}}
    \cup {[kind |-> "model", input |-> "input", inshape |-> <<1, 3, 224, 224>>,
           bias |-> 0, outs |-> 1],
          [kind |-> "model", input |-> "input", inshape |-> <<1, 3, 200, 200>>,
           bias |-> 0, outs |-> 2]}

---------------------------------------------------------------------------
\* Image handler: the library calls, as results or exceptions

Ok(v) == [ok |-> TRUE, v |-> v]
Raise(e) == [ok |-> FALSE, e |-> e]

\* ort.InferenceSession(MODEL_PATH, ...)
InferenceSession(path) ==
    IF path = MODEL_PATH /\ artifact.kind = "model"
    THEN Ok([t |-> "session", model |-> artifact])
    ELSE Raise("NoSuchFile")

\* session.get_inputs()[0].name
GetInputName(s) == s.model.input

\* request.urlopen(url) ... resp.read()
UrlOpenRead(u) ==
    IF u.t # "str" THEN Raise("AttributeError")
    ELSE IF u.s \notin Urls THEN Raise("ValueError")
    ELSE IF web[u.s].kind = "unreachable" THEN Raise("URLError")
    ELSE Ok(web[u.s])

\* Image.open(BytesIO(buffer))
ImageOpen(bytes) ==
    IF bytes.kind = "image" THEN Ok(bytes.image)
    ELSE Raise("UnidentifiedImageError")

\* img.convert("RGB")
ConvertRGB(i) ==
    [i EXCEPT !.mode = "RGB",
              !.bands = CASE i.mode = "L"    -> <<i.bands[1], i.bands[1], i.bands[1]>>
                          [] i.mode = "RGB"  -> i.bands
                          [] i.mode = "RGBA" -> SubSeq(i.bands, 1, 3)]

\* a resize that keeps the aspect ratio of the source
Resize_KeepAspect(i, size) ==
    LET h == (i.size[2] * size[1]) \div i.size[1]
    IN  [i EXCEPT !.size = <<size[1], IF h < 1 THEN 1 ELSE h>>]

\* img.resize(size, Image.NEAREST): nearest-neighbour keeps source pixels
Resize(i, size) == [i EXCEPT !.size = size]

\* np.array(img): height, width, channel
NpArray(i) ==
    [shape |-> <<i.size[2], i.size[1], Len(i.bands)>>, dtype |-> "uint8",
     ch |-> i.bands]

\* arr.astype(np.float32) / 255.0, in millionths
AsFloatDiv255(a) ==
    [a EXCEPT !.dtype = "float32",
              !.ch = [c \in DOMAIN a.ch |-> (a.ch[c] * 1000000) \div 255]]

\* np.transpose(arr, axes), axes counted from 0
Transpose(a, axes) ==
    [a EXCEPT !.shape = [k \in DOMAIN axes |-> a.shape[axes[k] + 1]]]

\* (arr - mean[:, None, None]) / std[:, None, None], in millionths
Normalize(a, mean, std) ==
    [a EXCEPT !.ch = [c \in DOMAIN a.ch |->
                        ((a.ch[c] - mean[c] * 1000) * 1000) \div std[c]]]

\* np.expand_dims(arr, axis=0)
ExpandDims(a) == [a EXCEPT !.shape = <<1>> \o a.shape]

\* a run whose result depends on how many invocations were served before
SessionRun_Stateful(s, name, t) ==
    IF name # s.model.input \/ t.shape # s.model.inshape \/ t.dtype # "float32"
    THEN Raise("InvalidArgument")
    ELSE Ok([shape |-> <<1, s.model.outs>>, dtype |-> "float32",
             v |-> [k \in 1..s.model.outs |->
                      s.model.bias + (t.ch[1] + t.ch[2] + t.ch[3]) \div 3
                      + 1000 * Cardinality({u \in Urls : served[u] > 0})]])

\* session.run(None, {input_name: tensor})[0]
SessionRun(s, name, t) ==
    IF name # s.model.input \/ t.shape # s.model.inshape \/ t.dtype # "float32"
    THEN Raise("InvalidArgument")
    ELSE Ok([shape |-> <<1, s.model.outs>>, dtype |-> "float32",
             v |-> [k \in 1..s.model.outs |->
                      s.model.bias + (t.ch[1] + t.ch[2] + t.ch[3]) \div 3]])

\* float(output.squeeze())
SqueezeToFloat(o) ==
    IF Len(o.v) = 1 THEN Ok(PyFloat(o.v[1])) ELSE Raise("TypeError")

---------------------------------------------------------------------------
\* Image handler: json.dumps of a one-key object

RECURSIVE PadDigits(_, _)
\* n written with exactly k digits
PadDigits(n, k) ==
    IF k = 0 THEN "" ELSE PadDigits(n \div 10, k - 1) \o ToString(n % 10)

RECURSIVE FracDigits(_, _)
\* the k-digit fraction n without its trailing zeros, at least one digit
FracDigits(n, k) ==
    IF k = 1 THEN ToString(n)
    ELSE IF n % 10 = 0 THEN FracDigits(n \div 10, k - 1)
    ELSE PadDigits(n, k)

\* repr of a float held in millionths
FloatRepr(x) ==
    LET a == IF x < 0 THEN 0 - x ELSE x
    IN  (IF x < 0 THEN "-" ELSE "") \o ToString(a \div 1000000) \o "."
        \o FracDigits(a % 1000000, 6)

JsonValue(v) ==
    CASE v.t = "str"   -> "\"" \o v.s \o "\""
      [] v.t = "float" -> FloatRepr(v.x)
      [] v.t = "None"  -> "null"

\* json.dumps({key: v})
JsonDumps(key, v) == "{" \o "\"" \o key \o "\"" \o ": " \o JsonValue(v) \o "}"

---------------------------------------------------------------------------
\* Image handler: the functions of the module

\* a download that swallows its failures and hands back a blank image
download_image_swallow(u) ==
    LET got == UrlOpenRead(u)
        blank == [size |-> <<1, 1>>, mode |-> "RGB", bands |-> <<0, 0, 0>>]
    IN  IF ~got.ok THEN Ok(blank)
        ELSE LET opened == ImageOpen(got.v)
             IN  IF ~opened.ok THEN Ok(blank) ELSE Ok(ConvertRGB(opened.v))

\* download_image, lines 15-19
download_image(u) ==
    LET got == UrlOpenRead(u)
    IN  IF ~got.ok THEN got
        ELSE LET opened == ImageOpen(got.v)
             IN  IF ~opened.ok THEN opened ELSE Ok(ConvertRGB(opened.v))

\* prepare_image, lines 22-28
prepare_image(i, target_size) ==
    LET resized == Resize(i, target_size)
        arr     == AsFloatDiv255(NpArray(resized))
        chw     == Transpose(arr, <<2, 0, 1>>)
        normed  == Normalize(chw, IMAGENET_MEAN, IMAGENET_STD)
    IN  ExpandDims(normed)

\* lambda_handler line 41
EventUrl(ev) == IF ev.t = "dict" THEN DictGet(ev, "url") ELSE None

\* lambda_handler lines 43-46
BadRequest ==
    [statusCode |-> 400, body |-> JsonDumps("error", PyStr("url is required"))]

\* lambda_handler lines 48-51
Success(p) == [statusCode |-> 200, body |-> JsonDumps("prediction", p)]

\* the session created at the top of lambda_handler, before the URL check
Program_LoadFirst ==
    <<"load", "input_name", "get_url", "check_url", "download", "prepare",
      "run", "to_float", "respond">>

\* the session created only once the tensor is ready
Program_LoadLast ==
    <<"get_url", "check_url", "download", "prepare", "load", "input_name",
      "run", "to_float", "respond">>

\* The statements of one invocation in execution order: lambda_handler
\* lines 41-42, predict lines 32-37, lambda_handler lines 48-51.
Program ==
    <<"get_url", "check_url", "load", "input_name", "download", "prepare",
      "run", "to_float", "respond">>

---------------------------------------------------------------------------
\* Image handler: events

UrlValues ==
    {None, PyStr(""), PyInt(0), PyInt(7)} \cup {PyStr(u) : u \in Urls}

Events ==
    {None, PyStr("https://a/1.jpg"), PyDict(<<>>), PyDict([id |-> PyInt(7)])}
    \cup {PyDict([url |-> v]) : v \in UrlValues}

---------------------------------------------------------------------------
\* Image handler: the state machine

locals == <<url, session, input_name, img, tensor, output, pred>>
env == <<web, artifact>>

\* no invocation yet
ImageIdle ==
    /\ pc = 0
    /\ event = Unbound
    /\ url = Unbound /\ session = Unbound /\ input_name = Unbound
    /\ img = Unbound /\ tensor = Unbound
    /\ output = Unbound /\ pred = Unbound
    /\ response = NoResponse
    /\ error = NoError
    /\ trace = <<>>
    /\ log = [u \in Urls |-> {}]
    /\ served = [u \in Urls |-> 0]

ImageInit ==
    /\ web \in [Urls -> Contents]
    /\ artifact \in Artifacts
    /\ ImageIdle

\* the image handler is not deployed
ImageAbsent ==
    /\ web = [u \in Urls |-> [kind |-> "unreachable"]]
    /\ artifact = [kind |-> "missing"]
    /\ ImageIdle

At(stmt) == pc \in 1..Len(Program) /\ Program[pc] = stmt

\* the statement at pc completes and control moves to the next one
Step == /\ pc' = pc + 1
        /\ trace' = Append(trace, Program[pc])
        /\ UNCHANGED <<env, event, response, error, log, served, cvars>>

\* The invocation ends, by a return (resp) or by an exception (err): the
\* frame's locals are gone, the outcome is what the caller sees.
Finish(resp, err) ==
    /\ pc' = 0
    /\ trace' = Append(trace, Program[pc])
    /\ response' = resp
    /\ error' = err
    /\ log' = IF url.t = "str" /\ url.s \in Urls
              THEN [log EXCEPT ![url.s] =
                       @ \cup {[tensor |-> tensor, response |-> resp,
                                error |-> err]}]
              ELSE log
    /\ served' = IF url.t = "str" /\ url.s \in Urls /\ served[url.s] < MaxServed
                 THEN [served EXCEPT ![url.s] = @ + 1]
                 ELSE served
    /\ url' = Unbound /\ session' = Unbound /\ input_name' = Unbound
    /\ img' = Unbound /\ tensor' = Unbound
    /\ output' = Unbound /\ pred' = Unbound
    /\ UNCHANGED <<env, event, cvars>>

\* the platform calls lambda_handler(event, context)
Invoke(ev) ==
    /\ pc = 0
    /\ pc' = 1
    /\ event' = ev
    /\ response' = NoResponse
    /\ error' = NoError
    /\ trace' = <<>>
    /\ UNCHANGED <<env, locals, log, served, cvars>>

\* line 41
GetUrl ==
    /\ At("get_url")
    /\ url' = EventUrl(event)
    /\ Step
    /\ UNCHANGED <<session, input_name, img, tensor, output, pred>>

\* lines 42-46
CheckUrl ==
    /\ At("check_url")
    /\ IF ~Truthy(url)
       THEN Finish(BadRequest, NoError)
       ELSE Step /\ UNCHANGED locals

\* line 32
LoadSession ==
    /\ At("load")
    /\ LET r == InferenceSession(MODEL_PATH)
       IN  IF r.ok
           THEN /\ session' = r.v
                /\ Step
                /\ UNCHANGED <<url, input_name, img, tensor, output,
                               pred>>
           ELSE Finish(NoResponse, Exception(r.e))

\* line 33
InputName ==
    /\ At("input_name")
    /\ input_name' = GetInputName(session)
    /\ Step
    /\ UNCHANGED <<url, session, img, tensor, output, pred>>

\* lines 34, 15-19
Download ==
    /\ At("download")
    /\ LET r == download_image(url)
       IN  IF r.ok
           THEN /\ img' = r.v
                /\ Step
                /\ UNCHANGED <<url, session, input_name, tensor, output,
                               pred>>
           ELSE Finish(NoResponse, Exception(r.e))

\* lines 35, 22-28
Prepare ==
    /\ At("prepare")
    /\ tensor' = prepare_image(img, TARGET_SIZE)
    /\ Step
    /\ UNCHANGED <<url, session, input_name, img, output, pred>>

\* line 36
Run ==
    /\ At("run")
    /\ LET r == SessionRun(session, input_name, tensor)
       IN  IF r.ok
           THEN /\ output' = r.v
                /\ Step
                /\ UNCHANGED <<url, session, input_name, img, tensor,
                               pred>>
           ELSE Finish(NoResponse, Exception(r.e))

\* lines 37, 47
ToFloat ==
    /\ At("to_float")
    /\ LET r == SqueezeToFloat(output)
       IN  IF r.ok
           THEN /\ pred' = r.v
                /\ Step
                /\ UNCHANGED <<url, session, input_name, img, tensor,
                               output>>
           ELSE Finish(NoResponse, Exception(r.e))

\* lines 48-51
Respond ==
    /\ At("respond")
    /\ Finish(Success(pred), NoError)

ImageNext ==
    \/ \E ev \in Events : Invoke(ev)
    \/ GetUrl
    \/ CheckUrl
    \/ LoadSession
    \/ InputName
    \/ Download
    \/ Prepare
    \/ Run
    \/ ToFloat
    \/ Respond

---------------------------------------------------------------------------
\* Churn handler: the environment

\* 0.5 of line 16, in thousandths
Threshold == 500
One == 2 * Threshold
ProbValues == {0, Threshold - 1, Threshold, Threshold + 1, One}

MaxInvocations == 3

Customers ==
    {PyDict([contract |-> PyStr("monthly"), tenure |-> PyInt(1)]),
     PyDict([contract |-> PyStr("two_year"), tenure |-> PyInt(60)])}

\* the file model.bin: absent, or a pickled pipeline that gives each
\* feature record its positive-class probability
ModelBins ==
    {[kind |-> "missing"]}
    \cup {[kind |-> "pipeline", p1 |-> f] : f \in [Customers -> ProbValues]}

\* values an event can carry under `customer`
CustomerValues ==
    Customers
    \cup {PyList(<<c>>) : c \in Customers}
    \cup {PyList(<<c, d>>) : c, d \in Customers}
    \cup {None, PyList(<<>>)}

ChurnEvents ==
    {None, PyDict(<<>>), PyDict([id |-> PyInt(7)])}
    \cup {PyDict([customer |-> v]) : v \in CustomerValues}

---------------------------------------------------------------------------
\* Churn handler: the library calls

\* pickle.load(f_in) of open('model.bin', 'rb'); n numbers the object made
PickleLoad(file, n) ==
    IF file.kind = "pipeline"
    THEN Ok([t |-> "pipeline", id |-> n, p1 |-> file.p1])
    ELSE Raise("FileNotFoundError")

\* pipeline.predict_proba(X): one row of two class probabilities per
\* sample; the pipeline's vectorizer takes a lone mapping as one sample
PredictProba(pl, X) ==
    LET samples == IF X.t = "dict" THEN <<X>>
                   ELSE IF X.t = "list" THEN X.items
                   ELSE <<>>
    IN  IF pl.t # "pipeline" THEN Raise("AttributeError")
        ELSE IF samples = <<>> THEN Raise("ValueError")
        ELSE IF \E k \in DOMAIN samples : samples[k] \notin Customers
             THEN Raise("ValueError")
        ELSE Ok([t |-> "ndarray",
                 rows |-> [k \in DOMAIN samples |->
                             <<One - pl.p1[samples[k]], pl.p1[samples[k]]>>]])

\* arr[i, j], indices counted from 0
Index2(arr, i, j) == [t |-> "np.float64", x |-> arr.rows[i + 1][j + 1]]

\* float(x) of a numpy scalar
ToPyFloat(x) == PyFloat(x.x)

\* event.get(key) in place of event[key]
Subscript_Default(ev, key) ==
    IF ev.t # "dict" THEN Raise("TypeError") ELSE Ok(DictGet(ev, key))

\* event[key]
Subscript(ev, key) ==
    IF ev.t # "dict" THEN Raise("TypeError")
    ELSE IF key \notin DOMAIN ev.d THEN Raise("KeyError")
    ELSE Ok(ev.d[key])

---------------------------------------------------------------------------
\* Churn handler: the functions of the module

\* a predict_single that unpickles model.bin again on every call
predict_single_reload(cust) ==
    LET l == PickleLoad(modelBin, pipelineLoads + 1)
        r == PredictProba(l.v, cust)
    IN  [pipeline |-> l.v,
         loads    |-> pipelineLoads + 1,
         on       |-> l.v,
         arg      |-> cust,
         proba    |-> IF r.ok THEN r.v ELSE Unbound,
         result   |-> IF r.ok THEN Index2(r.v, 0, 1) ELSE Unbound,
         out      |-> IF r.ok THEN Ok(ToPyFloat(Index2(r.v, 0, 1))) ELSE r]

\* a predict_single that selects column 0, the negative class
predict_single_class0(cust) ==
    LET r == PredictProba(pipeline, cust)
    IN  [pipeline |-> pipeline,
         loads    |-> pipelineLoads,
         on       |-> pipeline,
         arg      |-> cust,
         proba    |-> IF r.ok THEN r.v ELSE Unbound,
         result   |-> IF r.ok THEN Index2(r.v, 0, 0) ELSE Unbound,
         out      |-> IF r.ok THEN Ok(ToPyFloat(Index2(r.v, 0, 0))) ELSE r]

\* predict_single, lines 6-8: the call made on the global `pipeline`, and
\* the globals as the call leaves them
predict_single(cust) ==
    LET r == PredictProba(pipeline, cust)
    IN  [pipeline |-> pipeline,
         loads    |-> pipelineLoads,
         on       |-> pipeline,
         arg      |-> cust,
         proba    |-> IF r.ok THEN r.v ELSE Unbound,
         result   |-> IF r.ok THEN Index2(r.v, 0, 1) ELSE Unbound,
         out      |-> IF r.ok THEN Ok(ToPyFloat(Index2(r.v, 0, 1))) ELSE r]

\* `>` in place of `>=`
ChurnDecision_Strict(p) == p.x > Threshold

\* line 16
ChurnDecision(p) == p.x >= Threshold

\* lines 14-17
ChurnResponse(p) == [churn_probability |-> p, churn |-> ChurnDecision(p)]

---------------------------------------------------------------------------
\* Churn handler: the state machine

clocals == <<customer, proba, result, prediction>>

\* the module is not imported yet
ChurnIdle ==
    /\ cpc = "import"
    /\ pipeline = Unbound
    /\ pipelineLoads = 0
    /\ invocations = 0
    /\ cevent = Unbound
    /\ customer = Unbound /\ proba = Unbound /\ result = Unbound
    /\ prediction = Unbound
    /\ cresponse = NoResponse
    /\ cerror = NoError
    /\ probaCalls = <<>>
    /\ usedPipelines = {}

ChurnInit ==
    /\ modelBin \in ModelBins
    /\ ChurnIdle

\* the churn handler is not deployed
ChurnAbsent ==
    /\ modelBin = [kind |-> "missing"]
    /\ ChurnIdle

\* lines 3-4, run once when the module is imported
ImportModule ==
    /\ cpc = "import"
    /\ LET r == PickleLoad(modelBin, pipelineLoads + 1)
       IN  /\ pipelineLoads' = pipelineLoads + 1
           /\ IF r.ok
              THEN pipeline' = r.v /\ cpc' = "ready"
              ELSE pipeline' = pipeline /\ cpc' = "import_failed"
    /\ UNCHANGED <<modelBin, invocations, cevent, clocals, cresponse, cerror,
                   probaCalls, usedPipelines, ivars>>

\* the invocation ends, by a return (resp) or by an exception (err)
ChurnFinish(resp, err) ==
    /\ cpc' = "ready"
    /\ cresponse' = resp
    /\ cerror' = err
    /\ customer' = Unbound /\ proba' = Unbound /\ result' = Unbound
    /\ prediction' = Unbound

\* the platform calls lambda_handler(event, context)
ChurnInvoke(ev) ==
    /\ cpc = "ready"
    /\ invocations < MaxInvocations
    /\ invocations' = invocations + 1
    /\ cpc' = "line11"
    /\ cevent' = ev
    /\ cresponse' = NoResponse
    /\ cerror' = NoError
    /\ probaCalls' = <<>>
    /\ UNCHANGED <<modelBin, pipeline, pipelineLoads, clocals, usedPipelines,
                   ivars>>

\* line 11
GetCustomer ==
    /\ cpc = "line11"
    /\ LET r == Subscript(cevent, "customer")
       IN  IF r.ok
           THEN /\ customer' = r.v
                /\ cpc' = "line12"
                /\ UNCHANGED <<proba, result, prediction, cresponse, cerror>>
           ELSE ChurnFinish(NoResponse, Exception(r.e))
    /\ UNCHANGED <<modelBin, pipeline, pipelineLoads, invocations, cevent,
                   probaCalls, usedPipelines, ivars>>

\* lines 12, 6-8
PredictSingle ==
    /\ cpc = "line12"
    /\ LET r == predict_single(customer)
       IN  /\ pipeline' = r.pipeline
           /\ pipelineLoads' = r.loads
           /\ probaCalls' = Append(probaCalls, r.arg)
           /\ usedPipelines' = usedPipelines \cup {r.on}
           /\ IF r.out.ok
              THEN /\ prediction' = r.out.v
                   /\ proba' = r.proba
                   /\ result' = r.result
                   /\ cpc' = "line14"
                   /\ UNCHANGED <<customer, cresponse, cerror>>
              ELSE ChurnFinish(NoResponse, Exception(r.out.e))
    /\ UNCHANGED <<modelBin, invocations, cevent, ivars>>

\* lines 14-17
ChurnRespond ==
    /\ cpc = "line14"
    /\ ChurnFinish(ChurnResponse(prediction), NoError)
    /\ UNCHANGED <<modelBin, pipeline, pipelineLoads, invocations, cevent,
                   probaCalls, usedPipelines, ivars>>

ChurnNext ==
    \/ ImportModule
    \/ \E ev \in ChurnEvents : ChurnInvoke(ev)
    \/ GetCustomer
    \/ PredictSingle
    \/ ChurnRespond

---------------------------------------------------------------------------
\* The two deployments

\* the image handler's deployment
ImageStart == ImageInit /\ ChurnAbsent
ImageSpec == ImageStart /\ [][ImageNext]_vars

\* the churn handler's deployment
ChurnStart == ChurnInit /\ ImageAbsent
ChurnSpec == ChurnStart /\ [][ChurnNext]_vars

---------------------------------------------------------------------------
\* Properties of the image handler (checked under ImageSpec)

\* an invocation of the image handler has finished
Finished == pc = 0 /\ event # Unbound

\* the event is a mapping without `url`, or with `url` "" or None
MissingUrl(ev) ==
    /\ ev.t = "dict"
    /\ \/ "url" \notin DOMAIN ev.d
       \/ ev.d["url"] = None
       \/ ev.d["url"] = PyStr("")

Is400(r) == r # NoResponse /\ r.statusCode = 400
Is200(r) == r # NoResponse /\ r.statusCode = 200

Before(a, b) ==
    \A j \in DOMAIN trace :
        trace[j] = b => \E i \in 1..(j - 1) : trace[i] = a

\* C1: an invocation whose event is a mapping with no `url`, with `url`
\* the empty string or with `url` None returns exactly
\* {"statusCode": 400, "body": "{\"error\": \"url is required\"}"}, and
\* nothing else.
C1_MissingUrlReturns400 ==
    (Finished /\ MissingUrl(event)) =>
        /\ response =
             [statusCode |-> 400, body |-> "{\"error\": \"url is required\"}"]
        /\ error = NoError

C1_Witness ==
    /\ Finished
    /\ event = PyDict([url |-> PyStr("")])
    /\ Is400(response)

\* C2: in an invocation that ends with the 400 response the model is never
\* loaded from disk and never run.
C2_NoModelOn400 ==
    Is400(response) =>
        /\ \A j \in DOMAIN trace : trace[j] \notin {"load", "run"}
        /\ session = Unbound

C2_Witness ==
    /\ Finished
    /\ Is400(response)
    /\ event = PyDict([url |-> None])
    /\ artifact.kind = "model"

\* the failures the environment holds for a fetch, a decode, a model load
\* or an inference on URL value u
FailuresOf(u) ==
    LET got    == UrlOpenRead(u)
        opened == IF got.ok THEN ImageOpen(got.v) ELSE got
    IN  (IF artifact.kind # "model" THEN {"NoSuchFile"} ELSE {})
        \cup (IF ~got.ok THEN {got.e} ELSE {})
        \cup (IF got.ok /\ ~opened.ok THEN {opened.e} ELSE {})
        \cup (IF artifact.kind = "model"
                 /\ artifact.inshape # <<1, 3>> \o TARGET_SIZE
              THEN {"InvalidArgument"} ELSE {})

\* C6: with a non-empty url, when fetch, decode, model load or inference
\* fails, the invocation ends with that error raised to the caller: no
\* response is returned, and no statement is run a second time.
C6_FailuresPropagate ==
    (Finished /\ Truthy(EventUrl(event)) /\ FailuresOf(EventUrl(event)) # {})
    =>  /\ response = NoResponse
        /\ error.t = "exception"
        /\ error.name \in FailuresOf(EventUrl(event))
        /\ \A i, j \in DOMAIN trace : trace[i] = trace[j] => i = j

C6_Witness ==
    /\ Finished
    /\ artifact.kind = "model"
    /\ error = Exception("UnidentifiedImageError")
    /\ response = NoResponse

\* C7: with the web content and the model file fixed, all invocations
\* with the same url end with the same tensor and the same outcome,
\* wherever they stand in the sequence of invocations, and a finished
\* invocation leaves no local state behind.
C7_SameUrlSameOutcome ==
    /\ \A u \in Urls : Cardinality(log[u]) <= 1
    /\ pc = 0 =>
         /\ url = Unbound /\ session = Unbound /\ input_name = Unbound
         /\ img = Unbound /\ tensor = Unbound /\ output = Unbound
         /\ pred = Unbound

C7_Witness ==
    /\ Finished
    /\ Is200(response)
    /\ \E u \in Urls :
         /\ event = PyDict([url |-> PyStr(u)])
         /\ served[u] >= 2
         /\ \A o \in log[u] : o.tensor # Unbound /\ o.response = response
         /\ \E w \in Urls \ {u} : served[w] >= 1 /\ log[w] # log[u]

\* C8: the tensor made from any decodable image, whatever its size, aspect
\* ratio or colour mode, has shape (1, 3, 200, 200).
C8_TensorShape ==
    tensor # Unbound =>
        /\ tensor.shape = <<1, 3, 200, 200>>
        /\ DOMAIN tensor.ch = 1..3

C8_Witness ==
    /\ tensor # Unbound
    /\ url.t = "str"
    /\ web[url.s].image.size = <<640, 480>>
    /\ web[url.s].image.mode = "RGBA"

\* the fetch or the decode of this invocation failed
DownloadFailed ==
    /\ Finished
    /\ error \in {Exception("AttributeError"), Exception("ValueError"),
                  Exception("URLError"), Exception("UnidentifiedImageError")}

\* C9 as stated: the image is fetched, decoded and preprocessed before
\* the model is loaded, so no model load is attempted in an invocation
\* whose fetch or decode fails.
C9_LoadAfterPreprocessing ==
    /\ Before("download", "load")
    /\ Before("prepare", "load")
    /\ DownloadFailed => \A j \in DOMAIN trace : trace[j] # "load"

\* C9 amended: the model is loaded, and its input name read, before the
\* image is fetched; the fetch is attempted only after a successful load,
\* a failed fetch or decode comes after a model load, and the inference
\* runs after the preprocessing.
C9_LoadBeforeFetch ==
    /\ Before("load", "download")
    /\ Before("input_name", "download")
    /\ Before("prepare", "run")
    /\ DownloadFailed => \E j \in DOMAIN trace : trace[j] = "load"
    /\ (Finished /\ error = Exception("NoSuchFile")) =>
           \A j \in DOMAIN trace : trace[j] # "download"

C9_Witness ==
    /\ DownloadFailed
    /\ error = Exception("URLError")
    /\ trace = <<"get_url", "check_url", "load", "input_name", "download">>

---------------------------------------------------------------------------
\* Properties of the churn handler (checked under ChurnSpec)

\* an invocation of the churn handler has finished
ChurnFinished == cpc = "ready" /\ cevent # Unbound

\* the first sample of a `customer` value, as the pipeline reads it
FirstSample(c) == IF c.t = "list" THEN c.items[1] ELSE c

\* C3: a returned response has churn = True exactly when
\* churn_probability >= 0.5, and churn_probability lies in [0, 1].
C3_ChurnIffAtLeastHalf ==
    cresponse # NoResponse =>
        /\ cresponse.churn \in BOOLEAN
        /\ cresponse.churn <=> (cresponse.churn_probability.x >= Threshold)
        /\ cresponse.churn_probability.x >= 0
        /\ cresponse.churn_probability.x <= One

C3_Witness ==
    /\ ChurnFinished
    /\ cresponse # NoResponse
    /\ cresponse.churn_probability.x = Threshold
    /\ cresponse.churn = TRUE

\* C4: an invocation whose event mapping has no `customer` key ends in a
\* raised KeyError: it returns no response and never calls predict_proba.
C4_MissingCustomerRaises ==
    (cevent # Unbound /\ cevent.t = "dict" /\ "customer" \notin DOMAIN cevent.d)
    =>  /\ cresponse = NoResponse
        /\ probaCalls = <<>>
        /\ cpc \in {"line11", "ready"}
        /\ cpc = "ready" => cerror = Exception("KeyError")

C4_Witness ==
    /\ ChurnFinished
    /\ cevent = PyDict([id |-> PyInt(7)])
    /\ cerror = Exception("KeyError")

\* C5: model.bin is unpickled exactly once, when the module is imported
\* and before the first invocation; after any invocations, failed or not,
\* there is still one load, and every predict_proba call was made on that
\* one pipeline object, which is still the global.
C5_PipelineLoadedOnce ==
    /\ cpc = "import" => invocations = 0 /\ pipelineLoads = 0
    /\ cpc = "import_failed" => invocations = 0
    /\ invocations >= 1 =>
         /\ pipelineLoads = 1
         /\ pipeline = [t |-> "pipeline", id |-> 1, p1 |-> modelBin.p1]
         /\ usedPipelines \subseteq {pipeline}

C5_Witness ==
    /\ ChurnFinished
    /\ invocations >= 2
    /\ cerror # NoError
    /\ usedPipelines # {}

\* C10 as stated: predict_proba is handed a sequence of length one whose
\* only element is the event's `customer` record, and the probability
\* returned is entry [0, 1] of the result.
C10_ArgumentIsOneRowBatch ==
    /\ \A k \in DOMAIN probaCalls :
         /\ probaCalls[k].t = "list"
         /\ Len(probaCalls[k].items) = 1
         /\ probaCalls[k].items[1] = cevent.d["customer"]
    /\ prediction # Unbound => prediction.x = proba.rows[1][2]

\* C10 amended: predict_proba is handed the event's `customer` value
\* itself, not wrapped into a batch by the handler, once per invocation;
\* the probability returned is entry [0, 1] of the result as a float:
\* the positive-class probability of the first (for a lone record, the
\* only) row.
C10_ArgumentIsCustomerItself ==
    /\ Len(probaCalls) <= 1
    /\ \A k \in DOMAIN probaCalls : probaCalls[k] = cevent.d["customer"]
    /\ prediction # Unbound =>
         /\ probaCalls = <<cevent.d["customer"]>>
         /\ prediction.t = "float"
         /\ prediction.x = proba.rows[1][2]
         /\ prediction.x = modelBin.p1[FirstSample(cevent.d["customer"])]

C10_Witness ==
    /\ cpc = "line14"
    /\ cevent.d["customer"] \in Customers
    /\ probaCalls = <<cevent.d["customer"]>>
    /\ prediction.x = Threshold + 1

============================================================================
